---------------------------- MODULE Spec2Model ----------------------------
(***************************************************************************)
(* Model of src/daily_notes_generator.py: the daily-notes generator.       *)
(*                                                                         *)
(* Text (file names, file contents, todo texts) is a sequence of           *)
(* one-character strings, so that formatting, parsing, line splitting and  *)
(* pattern matching are computed character by character as the Python     *)
(* library does them.  Dates are records [year, month, day].  The model's  *)
(* dates have four-digit years (1000..9999), the range in which            *)
(* strftime("%Y") prints four digits and date - timedelta(7) cannot        *)
(* overflow.                                                               *)
(*                                                                         *)
(* Three specifications share the variables.  Spec: create_daily_note is   *)
(* called directly, each call one step, while an operator writes files.    *)
(* SpecMain: two invocations of main (the monitoring loop and a second     *)
(* one with any command line) run side by side under a clock, each call of *)
(* create_daily_note in two steps, split after the existence check.        *)
(* FairSpecLoop: the monitoring loop alone, with fairness, for liveness.   *)
(***************************************************************************)
EXTENDS Integers, Sequences, FiniteSets, TLC

VARIABLES
    dirExists,   \* NOTES_DIR exists on the filesystem
    files,       \* NOTES_DIR: file name -> [utf8, text], domain = the files present
    last,        \* what the most recent operation did (its reads, result, effects)
    firstBody,   \* file name -> the body create_daily_note first wrote to it
    nwrites,     \* file name -> number of times create_daily_note wrote it
    edits,       \* number of external writes so far
    procs,       \* the running invocations of main: name -> its position and locals
    clock        \* the local time datetime.now() returns: [date, hour]

vars == <<dirExists, files, last, firstBody, nwrites, edits, procs, clock>>

-----------------------------------------------------------------------------
(* Characters *)

DigitChars == <<"0", "1", "2", "3", "4", "5", "6", "7", "8", "9">>

IsDigit(c) == \E i \in 1..10 : DigitChars[i] = c

DigitVal(c) == (CHOOSE i \in 1..10 : DigitChars[i] = c) - 1

\* Code point of a character (the order Python compares strings by).
Code(c) ==
    CASE c = "\n" -> 10 [] c = "\f" -> 12 [] c = "\r" -> 13
      [] c = " " -> 32 [] c = "#" -> 35 [] c = "-" -> 45 [] c = "." -> 46
      [] IsDigit(c) -> 48 + DigitVal(c)
      [] c = "N" -> 78 [] c = "T" -> 84
      [] c = "[" -> 91 [] c = "]" -> 93
      [] c = "a" -> 97 [] c = "b" -> 98 [] c = "c" -> 99 [] c = "d" -> 100
      [] c = "e" -> 101 [] c = "k" -> 107 [] c = "m" -> 109 [] c = "o" -> 111
      [] c = "s" -> 115 [] c = "t" -> 116 [] c = "x" -> 120

\* s < t for two texts, as Python's str.__lt__: the first differing code
\* point decides, a proper prefix is smaller.
RECURSIVE StrLess(_, _)
StrLess(s, t) ==
    IF t = <<>> THEN FALSE
    ELSE IF s = <<>> THEN TRUE
    ELSE IF Head(s) = Head(t) THEN StrLess(Tail(s), Tail(t))
    ELSE Code(Head(s)) < Code(Head(t))

-----------------------------------------------------------------------------
(* datetime.date: validity, ordinals, comparison *)

Date(y, m, d) == [year |-> y, month |-> m, day |-> d]

\* datetime._is_leap
IsLeap(y) == y % 4 = 0 /\ (y % 100 # 0 \/ y % 400 = 0)

\* datetime._days_in_month
DaysInMonth(y, m) ==
    IF m = 2 THEN (IF IsLeap(y) THEN 29 ELSE 28)
    ELSE IF m \in {4, 6, 9, 11} THEN 30 ELSE 31

\* datetime._days_before_year
DaysBeforeYear(y) ==
    LET y1 == y - 1 IN y1 * 365 + (y1 \div 4) - (y1 \div 100) + (y1 \div 400)

\* datetime._days_before_month
RECURSIVE DaysBeforeMonth(_, _)
DaysBeforeMonth(y, m) ==
    IF m = 1 THEN 0 ELSE DaysBeforeMonth(y, m - 1) + DaysInMonth(y, m - 1)

\* date.toordinal
ToOrdinal(d) == DaysBeforeYear(d.year) + DaysBeforeMonth(d.year, d.month) + d.day

\* date.__lt__: (year, month, day) compared lexicographically
DateLess(a, b) ==
    \/ a.year < b.year
    \/ a.year = b.year /\ a.month < b.month
    \/ a.year = b.year /\ a.month = b.month /\ a.day < b.day


-----------------------------------------------------------------------------
(* DATE_FMT = "%Y-%m-%d": datetime.strptime and date.strftime *)

\* The result of a strptime that raised ValueError.
ValueError == [ok |-> FALSE, date |-> Date(0, 0, 0)]

\* The alternatives of %m, "1[0-2]|0[1-9]|[1-9]", that match s at position
\* p, in the regular expression's order, each as <<length, value>>.
MonthAlts(s, p) ==
    LET two == p + 1 <= Len(s)
        one == p <= Len(s)
        a1  == IF two /\ s[p] = "1" /\ s[p + 1] \in {"0", "1", "2"}
               THEN <<(<<2, 10 + DigitVal(s[p + 1])>>)>> ELSE <<>>
        a2  == IF two /\ s[p] = "0" /\ IsDigit(s[p + 1]) /\ s[p + 1] # "0"
               THEN <<(<<2, DigitVal(s[p + 1])>>)>> ELSE <<>>
        a3  == IF one /\ IsDigit(s[p]) /\ s[p] # "0"
               THEN <<(<<1, DigitVal(s[p])>>)>> ELSE <<>>
    IN  a1 \o a2 \o a3

\* The alternatives of %d, "3[0-1]|[1-2]\d|0[1-9]|[1-9]| [1-9]", likewise.
DayAlts(s, p) ==
    LET two == p + 1 <= Len(s)
        one == p <= Len(s)
        nz(c) == IsDigit(c) /\ c # "0"
        a1  == IF two /\ s[p] = "3" /\ s[p + 1] \in {"0", "1"}
               THEN <<(<<2, 30 + DigitVal(s[p + 1])>>)>> ELSE <<>>
        a2  == IF two /\ s[p] \in {"1", "2"} /\ IsDigit(s[p + 1])
               THEN <<(<<2, 10 * DigitVal(s[p]) + DigitVal(s[p + 1])>>)>> ELSE <<>>
        a3  == IF two /\ s[p] = "0" /\ nz(s[p + 1])
               THEN <<(<<2, DigitVal(s[p + 1])>>)>> ELSE <<>>
        a4  == IF one /\ nz(s[p])
               THEN <<(<<1, DigitVal(s[p])>>)>> ELSE <<>>
        a5  == IF two /\ s[p] = " " /\ nz(s[p + 1])
               THEN <<(<<2, DigitVal(s[p + 1])>>)>> ELSE <<>>
    IN  a1 \o a2 \o a3 \o a4 \o a5

\* datetime.strptime(s, DATE_FMT).date(): the compiled pattern
\*   (?P<Y>\d\d\d\d)-(?P<m>1[0-2]|0[1-9]|[1-9])-(?P<d>3[0-1]|[1-2]\d|0[1-9]|[1-9]| [1-9])
\* is matched at the start of s (a backtracking match: the first month
\* alternative after which "-" and a day follow), the match must end where s
\* ends ("unconverted data remains" otherwise), and date(Y, m, d) must exist.
strptime(s) ==
    LET n      == Len(s)
        yearOk == n >= 5 /\ (\A i \in 1..4 : IsDigit(s[i])) /\ s[5] = "-"
        year   == 1000 * DigitVal(s[1]) + 100 * DigitVal(s[2])
                  + 10 * DigitVal(s[3]) + DigitVal(s[4])
        months == MonthAlts(s, 6)
        \* the month alternatives after which the rest of the pattern matches
        good   == SelectSeq(months, LAMBDA a :
                      /\ 6 + a[1] <= n
                      /\ s[6 + a[1]] = "-"
                      /\ DayAlts(s, 6 + a[1] + 1) # <<>>)
    IN  IF ~yearOk \/ good = <<>> THEN ValueError
        ELSE LET mon   == Head(good)
                 dpos  == 6 + mon[1] + 1
                 dy    == Head(DayAlts(s, dpos))
                 endAt == dpos + dy[1] - 1
             IN  IF endAt # n THEN ValueError            \* unconverted data remains
                 ELSE IF year < 1 THEN ValueError         \* year 0 is out of range
                 ELSE IF dy[2] > DaysInMonth(year, mon[2]) THEN ValueError
                 ELSE [ok |-> TRUE, date |-> Date(year, mon[2], dy[2])]

\* The decimal digits of n >= 0, without padding.
RECURSIVE Decimal(_)
Decimal(n) ==
    IF n < 10 THEN <<DigitChars[n + 1]>>
    ELSE Decimal(n \div 10) \o <<DigitChars[(n % 10) + 1]>>

\* %m and %d: two digits, zero-padded.
Pad2(n) == <<DigitChars[(n \div 10) + 1], DigitChars[(n % 10) + 1]>>

\* note_date.strftime(DATE_FMT); the C library's %Y prints the year's digits
\* unpadded, which is four digits for the years 1000..9999.
strftime(d) == Decimal(d.year) \o <<"-">> \o Pad2(d.month) \o <<"-">> \o Pad2(d.day)

MdSuffix == <<".", "m", "d">>

\* notes_dir / f"{note_date.strftime(DATE_FMT)}.md"
NotePath(d) == strftime(d) \o MdSuffix

-----------------------------------------------------------------------------
(* get_all_notes *)

\* directory.glob("*.md"): the entries of the directory (none when it does
\* not exist) whose name ends in ".md"; matching is case-sensitive.
Glob(dx, fs) ==
    IF ~dx THEN {}
    ELSE {n \in DOMAIN fs :
            Len(n) >= 3 /\ SubSeq(n, Len(n) - 2, Len(n)) = MdSuffix}

\* PurePath.stem: the name without its last suffix; a name whose only dot
\* is the leading one has no suffix.
Stem(n) ==
    LET dots == {i \in 1..Len(n) : n[i] = "."}
        i    == IF dots = {} THEN 0
                ELSE CHOOSE k \in dots : \A j \in dots : j <= k
    IN  IF 1 < i /\ i < Len(n) THEN SubSeq(n, 1, i - 1) ELSE n

\* (date, Path) tuples compare by date, then by path.
NoteLess(a, b) ==
    \/ DateLess(a.date, b.date)
    \/ a.date = b.date /\ StrLess(a.path, b.path)

\* notes.sort(): the tuples in ascending order.
RECURSIVE SortNotes(_)
SortNotes(S) ==
    IF S = {} THEN <<>>
    ELSE LET least == CHOOSE a \in S : \A b \in S \ {a} : NoteLess(a, b)
         IN  <<least>> \o SortNotes(S \ {least})

get_all_notes(dx, fs) ==
    SortNotes({[date |-> strptime(Stem(n)).date, path |-> n] :
                  n \in {m \in Glob(dx, fs) : strptime(Stem(m)).ok}})

-----------------------------------------------------------------------------
(* extract_undone_todos *)

\* Text mode with universal newlines: "\r\n" and "\r" are read as "\n".
RECURSIVE Universal(_)
Universal(t) ==
    IF t = <<>> THEN <<>>
    ELSE IF Head(t) = "\r"
         THEN <<"\n">> \o Universal(IF Len(t) >= 2 /\ t[2] = "\n"
                                    THEN Tail(Tail(t)) ELSE Tail(t))
         ELSE <<Head(t)>> \o Universal(Tail(t))

\* The line boundaries of str.splitlines among the model's characters.
LineBoundaries == {"\n", "\r", "\f"}

\* str.splitlines(): the lines without their boundaries; "\r\n" is one
\* boundary; no empty last line after a final boundary.
RECURSIVE SplitFrom(_, _, _)
SplitFrom(t, i, cur) ==
    IF i > Len(t) THEN (IF cur = <<>> THEN <<>> ELSE <<cur>>)
    ELSE IF t[i] \in LineBoundaries
         THEN LET step == IF t[i] = "\r" /\ i < Len(t) /\ t[i + 1] = "\n"
                          THEN 2 ELSE 1
              IN  <<cur>> \o SplitFrom(t, i + step, <<>>)
         ELSE SplitFrom(t, i + 1, Append(cur, t[i]))

splitlines(t) == SplitFrom(t, 1, <<>>)

\* The literal prefix of TODO_PATTERN, "- [ ] ".
TodoPrefix == <<"-", " ", "[", " ", "]", " ">>

\* As if the pattern ended in (.*): a bare "- [ ] " matches, with an empty
\* group.
TodoPatternStar(line) ==
    LET k == Len(TodoPrefix)
    IN  IF Len(line) >= k /\ SubSeq(line, 1, k) = TodoPrefix
        THEN [matched |-> TRUE, group |-> SubSeq(line, k + 1, Len(line))]
        ELSE [matched |-> FALSE, group |-> <<>>]

\* TODO_PATTERN.match(line) for r"^- \[ \] (.+)": the literal at the start
\* of the line, then the longest non-empty run of characters other than
\* "\n"; group is group(1).
TODO_PATTERN(line) ==
    LET k    == Len(TodoPrefix)
        pre  == Len(line) >= k /\ SubSeq(line, 1, k) = TodoPrefix
        nls  == {i \in (k + 1)..Len(line) : line[i] = "\n"}
        stop == IF nls = {} THEN Len(line) + 1
                ELSE CHOOSE i \in nls : \A j \in nls : i <= j
    IN  IF pre /\ stop > k + 1
        THEN [matched |-> TRUE, group |-> SubSeq(line, k + 1, stop - 1)]
        ELSE [matched |-> FALSE, group |-> <<>>]

\* note_path.read_text(encoding='utf-8'): raises when the file cannot be
\* read or decoded.
read_text(f) ==
    IF f.utf8 THEN [error |-> FALSE, text |-> Universal(f.text)]
    ELSE [error |-> TRUE, text |-> <<>>]

\* The loop of extract_undone_todos over the lines.
RECURSIVE MatchLines(_)
MatchLines(lines) ==
    IF lines = <<>> THEN <<>>
    ELSE LET match == TODO_PATTERN(Head(lines))
         IN  (IF match.matched THEN <<match.group>> ELSE <<>>)
             \o MatchLines(Tail(lines))

extract_undone_todos(f) ==
    LET rd == read_text(f)
    IN  IF rd.error THEN [error |-> TRUE, todos |-> <<>>]
        ELSE [error |-> FALSE, todos |-> MatchLines(splitlines(rd.text))]

-----------------------------------------------------------------------------
(* aggregate_todos *)

\* As if the test "todo not in seen" were missing.
AddAll(acc, ex) ==
    [seen |-> acc.seen \cup {ex[i] : i \in DOMAIN ex}, todos |-> acc.todos \o ex]

\* The inner loop: append each todo not yet seen, and remember it.
RECURSIVE AddUnseen(_, _)
AddUnseen(acc, ex) ==
    IF ex = <<>> THEN acc
    ELSE LET todo == Head(ex)
         IN  IF todo \notin acc.seen
             THEN AddUnseen([seen  |-> acc.seen \cup {todo},
                             todos |-> Append(acc.todos, todo)], Tail(ex))
             ELSE AddUnseen(acc, Tail(ex))

\* As if a note that cannot be read were skipped (try/except: continue).
RECURSIVE AggregateSkipping(_, _, _, _, _)
AggregateSkipping(past_notes, fs, i, acc, reads) ==
    IF i > Len(past_notes)
    THEN [error |-> FALSE, todos |-> acc.todos, reads |-> reads]
    ELSE LET note == past_notes[i]
             ex   == extract_undone_todos(fs[note.path])
             log  == Append(reads, [path |-> note.path, todos |-> ex.todos])
         IN  AggregateSkipping(past_notes, fs, i + 1,
                               IF ex.error THEN acc ELSE AddUnseen(acc, ex.todos), log)

\* The outer loop over past_notes from index i; reads logs every note read,
\* with what was extracted from it.  An error of extract_undone_todos ends
\* the loop and propagates.
RECURSIVE AggregateFrom(_, _, _, _, _)
AggregateFrom(past_notes, fs, i, acc, reads) ==
    IF i > Len(past_notes)
    THEN [error |-> FALSE, todos |-> acc.todos, reads |-> reads]
    ELSE LET note == past_notes[i]
             ex   == extract_undone_todos(fs[note.path])
             log  == Append(reads, [path |-> note.path, todos |-> ex.todos])
         IN  IF ex.error
             THEN [error |-> TRUE, todos |-> <<>>, reads |-> log]
             ELSE AggregateFrom(past_notes, fs, i + 1, AddUnseen(acc, ex.todos), log)

aggregate_todos(past_notes, fs) ==
    AggregateFrom(past_notes, fs, 1, [seen |-> {}, todos |-> <<>>], <<>>)

-----------------------------------------------------------------------------
(* create_daily_note *)

\* timedelta(days=7)
WindowDays == 7

\* As if the window were open at its old end: one_week_ago < d < note_date.
InWindowOpen(d, note_date) ==
    /\ ToOrdinal(note_date) - WindowDays < ToOrdinal(d)
    /\ DateLess(d, note_date)

\* one_week_ago <= d < note_date, with one_week_ago = note_date - 7 days
InWindow(d, note_date) ==
    /\ ToOrdinal(note_date) - WindowDays <= ToOrdinal(d)
    /\ DateLess(d, note_date)

\* The body built from note_date and todos.
RECURSIVE TaskLines(_)
TaskLines(todos) ==
    IF todos = <<>> THEN <<>>
    ELSE TodoPrefix \o Head(todos) \o <<"\n">> \o TaskLines(Tail(todos))

\* As if the else branch of lines 96-97 were missing.
RenderBodyNoPlaceholder(note_date, todos) ==
    <<"#", " ">> \o strftime(note_date) \o <<"\n", "\n">>
    \o <<"#", "#", " ", "T", "a", "s", "k", "s", "\n">>
    \o TaskLines(todos)
    \o <<"\n">>
    \o <<"#", "#", " ", "N", "o", "t", "e", "s", "\n", "-", " ", "\n">>

RenderBody(note_date, todos) ==
    <<"#", " ">> \o strftime(note_date) \o <<"\n", "\n">>
    \o <<"#", "#", " ", "T", "a", "s", "k", "s", "\n">>
    \o (IF todos # <<>> THEN TaskLines(todos) ELSE TodoPrefix \o <<"\n">>)
    \o <<"\n">>
    \o <<"#", "#", " ", "N", "o", "t", "e", "s", "\n", "-", " ", "\n">>

\* How the filesystem answers mkdir and open/write.
IoOutcomes == {"ok", "mkdir_fails", "open_fails", "write_fails"}

EmptyDir == [n \in {} |-> [utf8 |-> TRUE, text |-> <<>>]]

\* As if the existence check were missing.
ExistsNever(dx, fs, fname) == FALSE

\* As if a file without content did not count as existing.
ExistsNonEmpty(dx, fs, fname) ==
    dx /\ fname \in DOMAIN fs /\ fs[fname].text # <<>>

\* fname.exists()
Exists(dx, fs, fname) == dx /\ fname \in DOMAIN fs

\* What a call of create_daily_note has done so far: nothing but the
\* existence check of fname, on the directory (dx, fs); dx keeps whether
\* notes_dir existed when the call began.
Checked(dx, fs, note_date) ==
    [op |-> "create", date |-> note_date, fname |-> NotePath(note_date),
     outcome |-> "exists", ret |-> "None",
     scanned |-> FALSE, all_notes |-> <<>>, recent_notes |-> <<>>,
     reads |-> <<>>, todos |-> <<>>, body |-> <<>>,
     mkdir |-> FALSE, opened |-> FALSE, wrote |-> FALSE,
     dx |-> dx, dx2 |-> dx, fs2 |-> fs]

\* As if lines 108-109 were missing: the directory is made, no file written.
PersistNoWrite(call, body, io) ==
    [call EXCEPT !.outcome = "created", !.mkdir = TRUE, !.dx2 = TRUE]

\* notes_dir.mkdir(parents=True, exist_ok=True), then open(fname, 'w') and
\* f.write(body), the filesystem answering io.  mkdir can only fail when the
\* directory is missing; open creates the file before write fills it.
Persist(call, body, io) ==
    IF io = "mkdir_fails" /\ ~call.dx2
    THEN [call EXCEPT !.outcome = "WriteError", !.ret = "raised"]
    ELSE IF io = "open_fails"
    THEN [call EXCEPT !.outcome = "WriteError", !.ret = "raised",
                      !.mkdir = TRUE, !.dx2 = TRUE]
    ELSE IF io = "write_fails"
    THEN [call EXCEPT !.outcome = "WriteError", !.ret = "raised",
                      !.mkdir = TRUE, !.opened = TRUE, !.dx2 = TRUE,
                      !.fs2 = (call.fname :> [utf8 |-> TRUE, text |-> <<>>]) @@ @]
    ELSE [call EXCEPT !.outcome = "created",
                      !.mkdir = TRUE, !.opened = TRUE, !.wrote = TRUE,
                      !.dx2 = TRUE,
                      !.fs2 = (call.fname :> [utf8 |-> TRUE, text |-> body]) @@ @]

\* From the result agg of aggregate_todos on: an error propagates, else the
\* body is built and persisted.
Render(call, agg, io) ==
    IF agg.error
    THEN [call EXCEPT !.reads = agg.reads, !.outcome = "ReadError", !.ret = "raised"]
    ELSE Persist([call EXCEPT !.reads = agg.reads, !.todos = agg.todos,
                              !.body = RenderBody(call.date, agg.todos)],
                 RenderBody(call.date, agg.todos), io)

\* From recent_notes on.
Aggregate(call, recent_notes, io) ==
    Render([call EXCEPT !.recent_notes = recent_notes],
           aggregate_todos(recent_notes, call.fs2), io)

\* From all_notes on: the notes of the last 7 days are gathered.
Gather(call, all_notes, io) ==
    Aggregate([call EXCEPT !.scanned = TRUE, !.all_notes = all_notes],
              SelectSeq(all_notes, LAMBDA n : InWindow(n.date, call.date)), io)

\* As if the check at line 75 were notes_dir.exists().
create_daily_note_DirCheck(dx, fs, note_date, io) ==
    IF dx
    THEN Checked(dx, fs, note_date)
    ELSE Gather(Checked(dx, fs, note_date), get_all_notes(dx, fs), io)

\* As if the directory were scanned before the existence check.
create_daily_note_ScanFirst(dx, fs, note_date, io) ==
    IF Exists(dx, fs, NotePath(note_date))
    THEN [Checked(dx, fs, note_date) EXCEPT !.scanned = TRUE,
                                            !.all_notes = get_all_notes(dx, fs)]
    ELSE Gather(Checked(dx, fs, note_date), get_all_notes(dx, fs), io)

\* One call create_daily_note(NOTES_DIR, note_date) on the directory
\* (dx, fs), the filesystem answering io: what the call did and returned,
\* and the directory it leaves (dx2, fs2).
create_daily_note(dx, fs, note_date, io) ==
    IF Exists(dx, fs, NotePath(note_date))
    THEN Checked(dx, fs, note_date)
    ELSE Gather(Checked(dx, fs, note_date), get_all_notes(dx, fs), io)

-----------------------------------------------------------------------------
(* The directory's files and the dates asked for *)

Txt2024 == <<"2", "0", "2", "4", "-">>

\* File names an operator may find or put in NOTES_DIR.
Name0228  == Txt2024 \o <<"0", "2", "-", "2", "8">> \o MdSuffix     \* 2024-02-28.md
Name0229  == Txt2024 \o <<"0", "2", "-", "2", "9">> \o MdSuffix     \* 2024-02-29.md
Name0306  == Txt2024 \o <<"0", "3", "-", "0", "6">> \o MdSuffix     \* 2024-03-06.md
Name0307  == Txt2024 \o <<"0", "3", "-", "0", "7">> \o MdSuffix     \* 2024-03-07.md
Name36    == Txt2024 \o <<"3", "-", "6">> \o MdSuffix               \* 2024-3-6.md
Name0230  == Txt2024 \o <<"0", "2", "-", "3", "0">> \o MdSuffix     \* 2024-02-30.md
NameTodo  == <<"t", "o", "d", "o">> \o MdSuffix                     \* todo.md

FileNames == {Name0228, Name0229, Name0306, Name0307, Name36, Name0230, NameTodo}

\* The dates create_daily_note is called for.
Targets == {Date(2024, 3, 6), Date(2024, 3, 7)}

Unfinished(t) == TodoPrefix \o t
Finished(t)   == <<"-", " ", "[", "x", "]", " ">> \o t

\* The lines of two hand-written notes.
NoteLines1 == <<Unfinished(<<"a">>), Finished(<<"b">>), Unfinished(<<"c">>)>>
NoteLines2 == <<Unfinished(<<"c">>), <<" ">> \o Unfinished(<<"d">>),
                TodoPrefix, <<"x", "\f">> \o Unfinished(<<"e">>),
                Unfinished(<<"a", " ">>)>>

\* lines joined by sep; final says whether the last line is terminated too.
RECURSIVE JoinLines(_, _, _)
JoinLines(lines, sep, final) ==
    IF lines = <<>> THEN <<>>
    ELSE IF Len(lines) = 1 THEN Head(lines) \o (IF final THEN sep ELSE <<>>)
    ELSE Head(lines) \o sep \o JoinLines(Tail(lines), sep, final)

\* File contents an operator may put in NOTES_DIR: a note with "\n" line
\* ends and no final one, a note with "\r\n" line ends and a form feed
\* inside a line, and a file that cannot be read as UTF-8 text.
Content1   == [utf8 |-> TRUE, text |-> JoinLines(NoteLines1, <<"\n">>, FALSE)]
Content2   == [utf8 |-> TRUE, text |-> JoinLines(NoteLines2, <<"\r", "\n">>, TRUE)]
Unreadable == [utf8 |-> FALSE, text |-> <<>>]

ContentPool == {Content1, Content2, Unreadable}

\* The number of external writes in a behaviour.
MaxEdits == 2

-----------------------------------------------------------------------------
(* The state machine *)

Idle ==
    [op |-> "none", date |-> Date(0, 0, 0), fname |-> <<>>,
     outcome |-> "none", ret |-> "None",
     scanned |-> FALSE, all_notes |-> <<>>, recent_notes |-> <<>>,
     reads |-> <<>>, todos |-> <<>>, body |-> <<>>,
     mkdir |-> FALSE, opened |-> FALSE, wrote |-> FALSE, dx |-> FALSE]

\* No clock reading (None).
NoReading == [date |-> Date(0, 0, 0), hour |-> 0]

\* An empty, possibly missing NOTES_DIR; nothing has been done yet.
InitDir ==
    /\ dirExists \in BOOLEAN
    /\ files = EmptyDir
    /\ last = Idle
    /\ firstBody = EmptyDir
    /\ nwrites = [n \in {} |-> 0]
    /\ edits = 0

\* create_daily_note is called directly: no invocation of main runs.
Init ==
    /\ InitDir
    /\ procs = [p \in {} |-> Idle]
    /\ clock = NoReading

\* The state after a call that did and left what r says.
Commit(r) ==
    /\ dirExists' = r.dx2
    /\ files' = r.fs2
    /\ last' = [f \in DOMAIN Idle |-> r[f]]
    /\ firstBody' = IF r.wrote /\ r.fname \notin DOMAIN firstBody
                    THEN (r.fname :> [utf8 |-> TRUE, text |-> r.body]) @@ firstBody
                    ELSE firstBody
    /\ nwrites' = IF r.wrote
                  THEN (r.fname :> (IF r.fname \in DOMAIN nwrites
                                    THEN nwrites[r.fname] + 1 ELSE 1)) @@ nwrites
                  ELSE nwrites
    /\ UNCHANGED edits

\* A call of create_daily_note for note_date.
CreateDailyNote(note_date, io) ==
    /\ Commit(create_daily_note(dirExists, files, note_date, io))
    /\ UNCHANGED <<procs, clock>>

\* The operator of the vault (an editor, a sync tool) writes a file.
ExternalWrite(n, c) ==
    /\ edits < MaxEdits
    /\ edits' = edits + 1
    /\ dirExists' = TRUE
    /\ files' = (n :> c) @@ files
    /\ last' = [Idle EXCEPT !.op = "external"]
    /\ firstBody' = [m \in DOMAIN firstBody \ {n} |-> firstBody[m]]
    /\ UNCHANGED <<nwrites, procs, clock>>

Next ==
    \/ \E d \in Targets, io \in IoOutcomes : CreateDailyNote(d, io)
    \/ \E n \in FileNames, c \in ContentPool : ExternalWrite(n, c)

Spec == Init /\ [][Next]_vars

-----------------------------------------------------------------------------
(* main: the command line, the monitoring loop and the clock *)

\* START_HOUR = 6
START_HOUR == 6

\* Hours of the day the clock is read at: before START_HOUR and from it on.
Hours == {5, 6}

\* The readings datetime.now() can give: the days of Targets at Hours.
Readings == [date : Targets, hour : Hours]

\* Reading a is earlier than reading b.
ReadingLess(a, b) ==
    \/ DateLess(a.date, b.date)
    \/ a.date = b.date /\ a.hour < b.hour

\* args.date: not given (None), or the string s.
NoDateArg == [given |-> FALSE, s |-> <<>>]
DateArg(s) == [given |-> TRUE, s |-> s]

Args(create_now, date) == [create_now |-> create_now, date |-> date]

\* No arguments: monitoring mode.
NoArgs == Args(FALSE, NoDateArg)

\* The command lines the second invocation of main is started with:
\* --create-now alone or with a --date that is no date, and --date with an
\* empty string, a date, a date that is none, a date without zero padding.
ArgsPool ==
    {Args(TRUE, NoDateArg), Args(TRUE, DateArg(Stem(Name0230))),
     Args(FALSE, DateArg(<<>>)), Args(FALSE, DateArg(Stem(Name0307))),
     Args(FALSE, DateArg(Stem(Name0230))), Args(FALSE, DateArg(Stem(Name36)))}

\* The invocations of main that run side by side on NOTES_DIR.
Procs == {"monitor", "manual"}

\* note_date=None
NoDate == Date(0, 0, 0)

\* An invocation of main with command line a, before line 120.
Started(a) ==
    [pc |-> "start", args |-> a, mode |-> "none",
     now |-> NoReading, last_run_date |-> NoDate, note_date |-> NoDate,
     ncalls |-> 0, wrote |-> <<>>]

\* As if the hour were not looked at.
HourAny(now) == TRUE

\* now.hour >= START_HOUR
HourReached(now) == now.hour >= START_HOUR

\* Lines 125-141: which branch main takes for the command line a.
main(a) ==
    IF a.create_now
    THEN [pc |-> "enter", mode |-> "now", note_date |-> NoDate]
    ELSE IF a.date.given /\ a.date.s # <<>>
    THEN IF strptime(a.date.s).ok
         THEN [pc |-> "enter", mode |-> "date", note_date |-> strptime(a.date.s).date]
         ELSE [pc |-> "done", mode |-> "date", note_date |-> NoDate]
    ELSE [pc |-> "loop", mode |-> "loop", note_date |-> NoDate]

\* As if main returned after its first call also in monitoring mode.
AfterCallOnce(mode, outcome) ==
    IF outcome \in {"exists", "created"} THEN "done"
    ELSE IF mode = "date" /\ outcome = "ReadError" THEN "done"
    ELSE "crashed"

\* Where main goes on when create_daily_note has ended with outcome: back
\* to the loop (line 155), or it returns (lines 128, 134); the exception of
\* a read is a ValueError (UnicodeDecodeError), which the handler at lines
\* 135-137 takes for a bad --date; any other exception ends main.
AfterCall(mode, outcome) ==
    IF outcome \in {"exists", "created"}
    THEN (IF mode = "loop" THEN "loop" ELSE "done")
    ELSE IF mode = "date" /\ outcome = "ReadError" THEN "done"
    ELSE "crashed"

InitMain ==
    /\ InitDir
    /\ \E a \in ArgsPool :
          procs = [p \in Procs |-> IF p = "monitor" THEN Started(NoArgs) ELSE Started(a)]
    /\ clock \in Readings

\* Lines 120-141 of invocation p.
MainStart(p) ==
    /\ procs[p].pc = "start"
    /\ procs' = [procs EXCEPT ![p].pc = main(procs[p].args).pc,
                              ![p].mode = main(procs[p].args).mode,
                              ![p].note_date = main(procs[p].args).note_date]
    /\ UNCHANGED <<dirExists, files, last, firstBody, nwrites, edits, clock>>

\* One iteration of the loop of p, lines 143-155, up to the call at line 153.
LoopIteration(p) ==
    /\ procs[p].pc = "loop"
    /\ procs' = [procs EXCEPT
          ![p].now = clock,
          ![p].last_run_date = clock.date,
          ![p].pc = IF HourReached(clock)
                       /\ ~Exists(dirExists, files, NotePath(clock.date))
                    THEN "enter" ELSE "loop",
          ![p].note_date = IF HourReached(clock)
                              /\ ~Exists(dirExists, files, NotePath(clock.date))
                           THEN clock.date ELSE NoDate]
    /\ UNCHANGED <<dirExists, files, last, firstBody, nwrites, edits, clock>>

\* The date a call of p is for: note_date, or today when it is None.
CallDate(p) ==
    IF procs[p].note_date = NoDate THEN clock.date ELSE procs[p].note_date

\* p calls create_daily_note: lines 69-77, up to the existence check.
EnterCreateDailyNote(p) ==
    /\ procs[p].pc = "enter"
    /\ IF Exists(dirExists, files, NotePath(CallDate(p)))
       THEN /\ Commit(Checked(dirExists, files, CallDate(p)))
            /\ procs' = [procs EXCEPT
                  ![p].pc = AfterCall(procs[p].mode, "exists"),
                  ![p].ncalls = @ + 1,
                  ![p].note_date = CallDate(p)]
       ELSE /\ procs' = [procs EXCEPT
                  ![p].pc = "gather",
                  ![p].ncalls = @ + 1,
                  ![p].note_date = CallDate(p)]
            /\ UNCHANGED <<dirExists, files, last, firstBody, nwrites, edits>>
    /\ UNCHANGED clock

\* The rest of the call of p, lines 80-110, the filesystem answering io.
FinishCreateDailyNote(p, io) ==
    /\ procs[p].pc = "gather"
    /\ Commit(Gather(Checked(dirExists, files, procs[p].note_date),
                     get_all_notes(dirExists, files), io))
    /\ procs' = [procs EXCEPT
          ![p].pc = AfterCall(procs[p].mode, last'.outcome),
          ![p].wrote = IF last'.wrote THEN Append(@, last'.fname) ELSE @]
    /\ UNCHANGED clock

\* Time passes.
Tick(t) ==
    /\ ReadingLess(clock, t)
    /\ clock' = t
    /\ UNCHANGED <<dirExists, files, last, firstBody, nwrites, edits, procs>>

\* What the operator writes while main runs: a note inside the windows or
\* the note of the second day, readable or not.
OperatorNames == {Name0229, Name0307}
OperatorContents == {Content1, Unreadable}

NextMain ==
    \/ \E p \in DOMAIN procs : MainStart(p)
    \/ \E p \in DOMAIN procs : LoopIteration(p)
    \/ \E p \in DOMAIN procs : EnterCreateDailyNote(p)
    \/ \E p \in DOMAIN procs, io \in IoOutcomes : FinishCreateDailyNote(p, io)
    \/ \E t \in Readings : Tick(t)
    \/ \E n \in OperatorNames, c \in OperatorContents : ExternalWrite(n, c)

SpecMain == InitMain /\ [][NextMain]_vars

\* The steps of invocation p outside the body of create_daily_note.
Run(p) ==
    \/ MainStart(p)
    \/ LoopIteration(p)
    \/ EnterCreateDailyNote(p)

\* The call of create_daily_note p is in, if any, ends: lines 80-110 are
\* loops over finite lists and blocking I/O.
CallEnds(p) == []<>(procs[p].pc # "gather")

\* main runs alone, in monitoring mode.
InitLoop ==
    /\ InitDir
    /\ procs = [p \in {"monitor"} |-> Started(NoArgs)]
    /\ clock \in Readings

\* The monitoring loop keeps running: when main can take its next step it
\* takes it, and a call it has made ends (which is weak fairness of
\* FinishCreateDailyNote, enabled exactly at "gather"); the clock and the
\* operator are under no obligation.
FairSpecLoop ==
    /\ InitLoop /\ [][NextMain]_vars
    /\ WF_vars(Run("monitor"))
    /\ CallEnds("monitor")

-----------------------------------------------------------------------------
(* Vocabulary of the properties, defined apart from the operators above *)

Range(q) == {q[i] : i \in DOMAIN q}

NoDuplicates(q) == \A i, j \in DOMAIN q : q[i] = q[j] => i = j

\* The calendar: the length of a month and the day before a date.
MonthLength(y, m) ==
    IF m = 2 /\ y % 4 = 0 /\ (y % 100 # 0 \/ y % 400 = 0) THEN 29
    ELSE <<31, 28, 31, 30, 31, 30, 31, 31, 30, 31, 30, 31>>[m]

DayBefore(d) ==
    IF d.day > 1 THEN Date(d.year, d.month, d.day - 1)
    ELSE IF d.month > 1
         THEN Date(d.year, d.month - 1, MonthLength(d.year, d.month - 1))
         ELSE Date(d.year - 1, 12, 31)

RECURSIVE DaysBack(_, _)
DaysBack(d, k) == IF k = 0 THEN d ELSE DaysBack(DayBefore(d), k - 1)

\* The dates d - 7 days, ..., d - 1 day.
WindowDates(d) == {DaysBack(d, k) : k \in 1..7}

\* The last operation was a call of create_daily_note.
Called == last.op = "create"

\* The last call got past aggregation (it rendered a body).
Aggregated == Called /\ last.outcome \in {"created", "WriteError"}

\* What a call for the date of the last call would render and write now if
\* the file of that date were not there.
FreshBody ==
    create_daily_note(dirExists,
                      [n \in DOMAIN files \ {last.fname} |-> files[n]],
                      last.date, "ok").body

\* The todos extracted from the notes the last call read, in reading order.
RECURSIVE ReadTodos(_)
ReadTodos(reads) ==
    IF reads = <<>> THEN <<>> ELSE Head(reads).todos \o ReadTodos(Tail(reads))

FirstIndex(q, x) == CHOOSE i \in DOMAIN q : q[i] = x /\ \A j \in 1..(i - 1) : q[j] # x

-----------------------------------------------------------------------------
(* C1 *)

\* C1: idempotence of create_daily_note.  Once a call has written the note
\* of a date, no later call for that date writes again, whatever has been
\* added to or changed in the other notes meanwhile: every file was written
\* at most once, and a written file the operator has not edited since still
\* holds exactly the body of that first write.
C1_Idempotent ==
    /\ \A n \in DOMAIN nwrites : nwrites[n] <= 1
    /\ \A n \in DOMAIN firstBody : n \in DOMAIN files /\ files[n] = firstBody[n]

\* A repeated call found its own earlier note, after the other notes had
\* changed so that generating again would give another body.
C1_Witness ==
    /\ Called /\ last.outcome = "exists"
    /\ last.fname \in DOMAIN firstBody
    /\ nwrites[last.fname] = 1
    /\ FreshBody # files[last.fname].text

-----------------------------------------------------------------------------
(* C2 *)

\* C2: window exactness.  The notes a call for date d passes to aggregation
\* are exactly the scanned notes dated d - 7 days .. d - 1 day, in scan
\* order; those are the notes read, and the todos carried over are the
\* todos of those notes and no others.
C2_WindowExact ==
    (Called /\ last.scanned) =>
        LET inWin == SelectSeq(last.all_notes,
                               LAMBDA n : n.date \in WindowDates(last.date))
        IN  /\ last.recent_notes = inWin
            /\ Aggregated =>
                 /\ [i \in DOMAIN last.reads |-> last.reads[i].path]
                      = [i \in DOMAIN inWin |-> inWin[i].path]
                 /\ Range(last.todos) = Range(ReadTodos(last.reads))

\* A call whose scan found a note dated exactly d - 7 days (carried over)
\* and a note dated d itself (left out).
C2_Witness ==
    /\ Called /\ last.outcome = "created"
    /\ \E i \in DOMAIN last.recent_notes :
          /\ last.recent_notes[i].date = DaysBack(last.date, 7)
          /\ last.reads[i].todos # <<>>
          /\ Range(last.reads[i].todos) \subseteq Range(last.todos)
    /\ \E i \in DOMAIN last.all_notes :
          /\ last.all_notes[i].date = last.date
          /\ \A j \in DOMAIN last.reads : last.reads[j].path # last.all_notes[i].path

-----------------------------------------------------------------------------
(* C3 *)

\* C3: aggregate_todos.  The result holds each distinct todo text of the
\* notes read exactly once, ordered by first occurrence reading the notes in
\* the given order and each note top to bottom; texts are compared exactly.
C3_DedupFirstSeen ==
    Aggregated =>
        LET all == ReadTodos(last.reads)
        IN  /\ NoDuplicates(last.todos)
            /\ Range(last.todos) = Range(all)
            /\ \A i, j \in DOMAIN last.todos :
                  i < j => FirstIndex(all, last.todos[i]) < FirstIndex(all, last.todos[j])

\* Two notes with overlapping todos were aggregated: a text occurring in
\* both appears once, and "a" and "a " are both kept.
C3_Witness ==
    /\ Aggregated
    /\ Len(last.reads) >= 2
    /\ Range(last.reads[1].todos) \cap Range(last.reads[2].todos) # {}
    /\ <<"a">> \in Range(last.todos)
    /\ <<"a", " ">> \in Range(last.todos)
    /\ Len(ReadTodos(last.reads)) > Len(last.todos)

-----------------------------------------------------------------------------
(* C4, C5 *)

\* The stem of a ".md" file name.
MdStem(n) == SubSeq(n, 1, Len(n) - 3)

IsMd(n) == Len(n) >= 3 /\ SubSeq(n, Len(n) - 2, Len(n)) = MdSuffix

\* The number written by the digits of s at positions i..j.
RECURSIVE Number(_, _, _)
Number(s, i, j) ==
    IF j < i THEN 0 ELSE 10 * Number(s, i, j - 1) + DigitVal(s[j])

\* s is a calendar date written exactly as YYYY-MM-DD.
ExactFormat(s) ==
    /\ Len(s) = 10
    /\ \A i \in {1, 2, 3, 4, 6, 7, 9, 10} : IsDigit(s[i])
    /\ s[5] = "-" /\ s[8] = "-"
    /\ Number(s, 1, 4) >= 1
    /\ Number(s, 6, 7) \in 1..12
    /\ Number(s, 9, 10) \in 1..MonthLength(Number(s, 1, 4), Number(s, 6, 7))

ExactDate(s) == Date(Number(s, 1, 4), Number(s, 6, 7), Number(s, 9, 10))

DateKey(d) == 10000 * d.year + 100 * d.month + d.day

\* The files that were in the directory when the last call scanned it: the
\* call got to the scan because the file of its date was not there.
ScannedNames == IF dirExists THEN DOMAIN files \ {last.fname} ELSE {}

\* C4: the filter property of get_all_notes.  The scan returns exactly the
\* ".md" files whose stem is a date written exactly as YYYY-MM-DD, each with
\* that date, in ascending order of date.
C4_ScanExactFormat ==
    (Called /\ last.scanned) =>
        /\ {last.all_notes[i].path : i \in DOMAIN last.all_notes}
             = {n \in ScannedNames : IsMd(n) /\ ExactFormat(MdStem(n))}
        /\ \A i \in DOMAIN last.all_notes :
              /\ ExactFormat(MdStem(last.all_notes[i].path))
              /\ last.all_notes[i].date = ExactDate(MdStem(last.all_notes[i].path))
        /\ \A i, j \in DOMAIN last.all_notes :
              i < j => DateKey(last.all_notes[i].date) <= DateKey(last.all_notes[j].date)

\* C5: one note per date.  After any call of create_daily_note, no two
\* notes of a scan of the directory have the same date.
C5_OneNotePerDate ==
    Called =>
        LET notes == get_all_notes(dirExists, files)
        IN  \A i, j \in DOMAIN notes : notes[i].date = notes[j].date => i = j

-----------------------------------------------------------------------------
(* C6 *)

-----------------------------------------------------------------------------
(* C7 *)

\* C7: when the file of the target date is there, whoever wrote it and
\* whatever it holds, the call does nothing but the existence check: no
\* scan, no read, no mkdir, no open or write, and the directory is unchanged.
C7_ExistsNoEffect ==
    [][ (last'.op = "create" /\ dirExists /\ last'.fname \in DOMAIN files) =>
          /\ last'.outcome = "exists"
          /\ ~last'.scanned /\ last'.all_notes = <<>> /\ last'.reads = <<>>
          /\ ~last'.mkdir /\ ~last'.opened /\ ~last'.wrote
          /\ files' = files /\ dirExists' = dirExists
    ]_vars

\* A call found a file of its date that the operator had put there, one
\* that cannot even be read.
C7_Witness ==
    /\ Called /\ last.outcome = "exists"
    /\ last.fname \notin DOMAIN nwrites
    /\ ~files[last.fname].utf8

-----------------------------------------------------------------------------
(* C8 *)

\* C8: a read error is all or nothing.  When the file of the target date is
\* not there and some scanned note of the 7-day window cannot be read, the
\* call raises, and it creates and changes nothing.
C8_ReadErrorAllOrNothing ==
    [][ (/\ last'.op = "create"
         /\ ~(dirExists /\ last'.fname \in DOMAIN files)
         /\ LET notes == get_all_notes(dirExists, files)
            IN  \E i \in DOMAIN notes :
                   /\ notes[i].date \in WindowDates(last'.date)
                   /\ ~files[notes[i].path].utf8)
        =>
          /\ last'.outcome = "ReadError" /\ last'.ret = "raised"
          /\ ~last'.mkdir /\ ~last'.opened /\ ~last'.wrote
          /\ files' = files /\ dirExists' = dirExists
    ]_vars

\* A call read a note with todos, then failed on an unreadable one, and
\* left no file for its date.
C8_Witness ==
    /\ Called /\ last.outcome = "ReadError"
    /\ Len(last.reads) >= 2
    /\ last.reads[1].todos # <<>>
    /\ last.fname \notin DOMAIN files

-----------------------------------------------------------------------------
(* C9 *)

\* The lines of a generated note for the date written as dateText with the
\* tasks T.
NoteLayout(dateText, T) ==
    <<(<<"#", " ">> \o dateText), <<>>, <<"#", "#", " ", "T", "a", "s", "k", "s">>>>
    \o (IF T = <<>> THEN <<TodoPrefix>> ELSE [i \in DOMAIN T |-> TodoPrefix \o T[i]])
    \o <<(<<>>), <<"#", "#", " ", "N", "o", "t", "e", "s">>, <<"-", " ">>>>

\* sub occurs in text.
Occurs(sub, text) ==
    \E i \in 1..(Len(text) - Len(sub) + 1) : SubSeq(text, i, i + Len(sub) - 1) = sub

\* C9: the rendered body.  The file a call writes is, line by line: the
\* heading "# " and the date as YYYY-MM-DD (the stem of the file's name), an
\* empty line, "## Tasks", one line "- [ ] t" per aggregated todo t in order
\* or the single line "- [ ] " when there is none, an empty line, "## Notes"
\* and "- ".  Every task stands after an unfinished box in a note that was
\* read, so an item that is only completed there is not carried over.
C9_RenderedBody ==
    (Called /\ last.outcome = "created") =>
        /\ ExactFormat(MdStem(last.fname))
        /\ ExactDate(MdStem(last.fname)) = last.date
        /\ files[last.fname] =
             [utf8 |-> TRUE,
              text |-> JoinLines(NoteLayout(MdStem(last.fname), last.todos),
                                 <<"\n">>, TRUE)]
        /\ \A t \in Range(last.todos) :
              \E i \in DOMAIN last.reads :
                 Occurs(TodoPrefix \o t, files[last.reads[i].path].text)

\* The carry-over scenario: a note with "a" and "c" unfinished and "b"
\* completed was read, and the Tasks are "a" then "c".
C9_Witness ==
    /\ Called /\ last.outcome = "created"
    /\ Len(last.reads) = 1
    /\ files[last.reads[1].path] = Content1
    /\ last.todos = <<(<<"a">>), <<"c">>>>

-----------------------------------------------------------------------------
(* C10 *)

\* The lines of a text: the runs of characters ended by "\n", "\r\n" or "\r".
RECURSIVE TextLines(_, _)
TextLines(text, cur) ==
    IF text = <<>> THEN (IF cur = <<>> THEN <<>> ELSE <<cur>>)
    ELSE IF Head(text) = "\n" THEN <<cur>> \o TextLines(Tail(text), <<>>)
    ELSE IF Head(text) = "\r"
         THEN <<cur>> \o TextLines(IF Len(text) >= 2 /\ text[2] = "\n"
                                   THEN Tail(Tail(text)) ELSE Tail(text), <<>>)
    ELSE TextLines(Tail(text), Append(cur, Head(text)))

\* The suffixes of the lines that begin with "- [ ] " and go on.
RECURSIVE UnfinishedOf(_)
UnfinishedOf(lines) ==
    IF lines = <<>> THEN <<>>
    ELSE LET l == Head(lines)
             k == Len(TodoPrefix)
         IN  (IF Len(l) > k /\ SubSeq(l, 1, k) = TodoPrefix
              THEN <<SubSeq(l, k + 1, Len(l))>> ELSE <<>>)
             \o UnfinishedOf(Tail(lines))

\* C10: extract_undone_todos.  What is extracted from a readable note is, in
\* file order, the suffix of exactly those lines that begin at column 0 with
\* "- [ ] " followed by at least one character.
C10_ExtractUndone ==
    Called =>
        \A i \in DOMAIN last.reads :
            files[last.reads[i].path].utf8 =>
                last.reads[i].todos
                  = UnfinishedOf(TextLines(files[last.reads[i].path].text, <<>>))

-----------------------------------------------------------------------------
(* C11 *)

\* C11: postcondition of persisting.  Whenever a call of create_daily_note
\* returns without an error, the file of its date exists in the directory
\* afterwards; when notes_dir did not exist at the call, the scan found no
\* notes (it did not fail), mkdir made the directory and the note was
\* written into it.
C11_FileExistsAfterReturn ==
    (Called /\ last.ret = "None") =>
        /\ Exists(dirExists, files, last.fname)
        /\ ~last.dx => /\ last.scanned /\ last.all_notes = <<>>
                       /\ last.reads = <<>> /\ last.todos = <<>>
                       /\ last.mkdir /\ last.wrote
                       /\ files[last.fname].text = last.body

\* A call on a missing directory returned without error.
C11_Witness ==
    /\ Called /\ last.ret = "None" /\ ~last.dx
    /\ last.outcome = "created" /\ dirExists

-----------------------------------------------------------------------------
(* C12 *)

\* C12: a bad --date is rejected before create_daily_note.  An invocation
\* of main whose command line gives a --date string that strptime does not
\* parse never calls create_daily_note, writes no file, and returns without
\* entering the monitoring loop.
C12_BadDateRejected ==
    \A p \in Procs :
        (procs[p].args.date.given /\ ~strptime(procs[p].args.date.s).ok) =>
            /\ procs[p].ncalls = 0
            /\ procs[p].wrote = <<>>
            /\ procs[p].mode # "loop"
            /\ procs[p].pc \in {"start", "done"}

-----------------------------------------------------------------------------
(* C13 *)

\* Invocation p is in monitoring mode.
Monitoring(p) == procs[p].mode = "loop"

\* p takes a step of the given kind: from position a to another position.
Leaves(p, a) == procs[p].pc = a /\ procs'[p].pc # a

\* C13: safety of the monitoring loop.  An iteration calls create_daily_note
\* only when the hour it read is at least 6, only for the date of that same
\* reading, and only when the note of that date is not there; the loop
\* writes a note only at or after 6:00 of the note's day, writes only the
\* note of a day it read the clock on, and writes no note twice.
C13_LoopSafety ==
    [][\A p \in Procs : Monitoring(p) =>
          /\ (procs[p].pc = "loop" /\ procs'[p].pc = "enter") =>
                /\ clock.hour >= 6
                /\ procs'[p].now = clock
                /\ procs'[p].note_date = clock.date
                /\ ~(dirExists /\ NotePath(clock.date) \in DOMAIN files)
          /\ procs'[p].ncalls > procs[p].ncalls =>
                /\ procs[p].now.hour >= 6
                /\ procs'[p].note_date = procs[p].now.date
          /\ (Leaves(p, "gather") /\ last'.wrote) =>
                /\ last'.fname = NotePath(procs[p].now.date)
                /\ ~ReadingLess(clock, [date |-> procs[p].now.date, hour |-> 6])
                /\ files'[last'.fname].text = last'.body
          /\ NoDuplicates(procs'[p].wrote)
      ]_vars

\* The loop has served two days: it wrote the note of each.
C13_Witness ==
    /\ Monitoring("monitor")
    /\ Len(procs["monitor"].wrote) = 2
    /\ procs["monitor"].ncalls = 2

-----------------------------------------------------------------------------
(* C14 *)

\* Invocation p has ended with an exception.
Crashed(p) == procs[p].pc = "crashed"

\* p is between two iterations of its loop, the last of which read the
\* clock on date d at an hour from 6 on.
IterationDone(p, d) ==
    /\ Monitoring(p) /\ procs[p].pc = "loop"
    /\ procs[p].now.date = d /\ procs[p].now.hour >= 6

\* The loop of main has read the clock on date d at an hour from 6 on.
ReadAt(d) ==
    /\ Monitoring("monitor")
    /\ procs["monitor"].now.date = d /\ procs["monitor"].now.hour >= 6

\* C14: liveness of the monitoring loop.  While the loop runs, the note of
\* every day on which an iteration read an hour from 6 on exists when that
\* iteration ends, and every such iteration does end, unless a read or
\* write error ends main; the loop never returns, it stops only by such an
\* error, and it keeps reading the clock, so it serves the following days.
C14_LoopLiveness ==
    /\ \A d \in Targets :
          [](IterationDone("monitor", d) => Exists(dirExists, files, NotePath(d)))
    /\ \A d \in Targets :
          ReadAt(d) ~> (IterationDone("monitor", d) \/ Crashed("monitor"))
    /\ <>(Monitoring("monitor"))
    /\ Monitoring("monitor")
          ~> (procs["monitor"].now = clock \/ Crashed("monitor"))
    /\ [][Monitoring("monitor") =>
            /\ procs'["monitor"].pc # "done"
            /\ (Crashed("monitor")' /\ ~Crashed("monitor")) =>
                   last'.outcome \in {"ReadError", "WriteError"}]_vars

\* The loop has ended the iteration of a second day with both notes there,
\* the first written by itself.
C14_Witness ==
    /\ IterationDone("monitor", Date(2024, 3, 7))
    /\ Len(procs["monitor"].wrote) >= 1
    /\ Name0306 \in DOMAIN files /\ Name0307 \in DOMAIN files

-----------------------------------------------------------------------------
(* C15 *)

\* C15: frame of create_daily_note.  In any sequence of calls for any
\* dates, a call leaves every file that was in the directory before it in
\* place with its content unchanged; the only file it can add is the one of
\* its date, and it never removes the directory.
C15_Frame ==
    [][last'.op = "create" =>
          /\ \A n \in DOMAIN files : n \in DOMAIN files' /\ files'[n] = files[n]
          /\ DOMAIN files' \ DOMAIN files \subseteq {last'.fname}
          /\ dirExists => dirExists'
          /\ last'.fname = NotePath(last'.date)
      ]_vars

\* A call has added its note to a directory that held a note generated
\* earlier and a file of the operator, both still there.
C15_Witness ==
    /\ Called /\ last.outcome = "created"
    /\ \E n \in DOMAIN firstBody : n # last.fname
    /\ \E n \in DOMAIN files : n \notin DOMAIN nwrites

-----------------------------------------------------------------------------
(* C16 *)

\* The last call read the generated, since unedited note at reads[i].
ReadGenerated(i) == last.reads[i].path \in DOMAIN firstBody

\* C16: carry-forward round trip.  extract_undone_todos applied to the note
\* a call has just written gives back exactly the aggregated list the note
\* was rendered from, in the same order (nothing for the note rendered from
\* the empty list: its "- [ ] " line is no todo).  So a later call that reads
\* a generated note nobody has edited gets from it exactly its task lines,
\* carries each of them over, and its own list has no duplicate and no
\* empty item.
C16_RoundTrip ==
    /\ (Called /\ last.outcome = "created") =>
          extract_undone_todos(files[last.fname])
            = [error |-> FALSE, todos |-> last.todos]
    /\ Aggregated =>
          /\ \A i \in DOMAIN last.reads : ReadGenerated(i) =>
                /\ last.reads[i].todos
                     = UnfinishedOf(TextLines(firstBody[last.reads[i].path].text, <<>>))
                /\ Range(last.reads[i].todos) \subseteq Range(last.todos)
          /\ NoDuplicates(last.todos)
          /\ <<>> \notin Range(last.todos)

\* On consecutive days: the note of the second day was generated from the
\* generated note of the first, which alone carried two todos into it.
C16_Witness ==
    /\ Called /\ last.outcome = "created"
    /\ last.date = Date(2024, 3, 7)
    /\ \E i \in DOMAIN last.reads :
          /\ ReadGenerated(i) /\ last.reads[i].path = Name0306
          /\ Len(last.reads[i].todos) >= 2
          /\ last.todos = last.reads[i].todos

-----------------------------------------------------------------------------
(* C17 *)

\* C17: a failed persist leaves no blocking file.  When a call ends with a
\* WriteError (from mkdir, open or write), the error is raised to the
\* caller, nothing was retried, no file of the call's date remains, and a
\* later call for that date generates the note instead of finding it there.
C17_NoBlockingFile ==
    (Called /\ last.outcome = "WriteError") =>
        /\ last.ret = "raised"
        /\ ~last.wrote
        /\ ~Exists(dirExists, files, last.fname)
        /\ create_daily_note(dirExists, files, last.date, "ok").outcome = "created"

-----------------------------------------------------------------------------
(* C18 *)

\* C18: exactly-once persist under interleaving.  When invocations of main
\* run side by side on NOTES_DIR, the note of a date is written at most
\* once in all, and a call that finds, when it comes to write, a file that
\* was not there at its existence check leaves that file as it is.
C18_ExactlyOnce ==
    [][/\ \A n \in DOMAIN nwrites' : nwrites'[n] <= 1
       /\ \A p \in DOMAIN procs :
             (Leaves(p, "gather")
                /\ Exists(dirExists, files, NotePath(procs[p].note_date))) =>
                   files'[NotePath(procs[p].note_date)]
                     = files[NotePath(procs[p].note_date)]
      ]_vars

=============================================================================
